---------------------------- MODULE Spec2Model ----------------------------
(***************************************************************************)
(* A model of newsfetch.py: NewsAPIClient, WebScraper (with its lru_cache), *)
(* NewsAggregator, the text heuristics of NewsGUI and the button / worker   *)
(* thread protocol of NewsGUI.                                             *)
(*                                                                         *)
(* Python str values that the program inspects character by character      *)
(* (content, description, author, publication_date) are sequences of       *)
(* one-character strings.  The empty sequence stands for every falsy text  *)
(* value of the program (None, a missing key, "").  URLs and source names  *)
(* are only ever compared for equality and are atomic strings; the url ""  *)
(* stands for a missing or empty url.                                      *)
(***************************************************************************)
EXTENDS Integers, Sequences, FiniteSets, TLC

VARIABLES
    articles,         \* NewsAggregator.articles
    cache,            \* the lru_cache of WebScraper.scrape_article, LRU entry first
    computed,         \* history: what scrape_article computed from the page, per url
    scrapeOut,        \* history: the last scrape_article call and what it returned
    lastAgg,          \* history: the last aggregate call (input, outcome, previous list)
    cleaned,          \* history: whether _clean_data wrote articles last, and its input
    fetch_button,     \* NewsGUI.fetch_button state
    visualize_button, \* NewsGUI.visualize_button state
    loading_label,    \* NewsGUI.loading_label text
    text_area,        \* NewsGUI.text_area: the blocks inserted so far
    afterQueue,       \* callbacks scheduled with root.after(0, ...), oldest first
    threads,          \* the running worker threads (_fetch_news_thread), by position
    dialog,           \* the last messagebox / plot shown by the UI thread
    hIn,              \* input of the last text-heuristic / reconciliation evaluation
    hOut              \* its result

vars == <<articles, cache, computed, scrapeOut, lastAgg, cleaned,
          fetch_button, visualize_button, loading_label, text_area,
          afterQueue, threads, dialog, hIn, hOut>>

aggVars == <<articles, cache, computed, scrapeOut, lastAgg, cleaned>>
guiVars == <<fetch_button, visualize_button, loading_label, text_area,
             afterQueue, threads, dialog>>
heurVars == <<hIn, hOut>>

-----------------------------------------------------------------------------
(* Bounds of the model *)

MaxHeadlines == 1      \* longest headline list an upstream response carries
MaxArticles == 3       \* longest article list _clean_data is called on directly
MaxThreads == 2        \* worker threads the model lets exist at once

-----------------------------------------------------------------------------
(* Characters and texts *)

Upper == {"A","B","C","D","E","F","G","H","I","J","K","L","M",
          "N","O","P","Q","R","S","T","U","V","W","X","Y","Z"}
Lower == {"a","b","c","d","e","f","g","h","i","j","k","l","m",
          "n","o","p","q","r","s","t","u","v","w","x","y","z"}
DigitChars == <<"0","1","2","3","4","5","6","7","8","9">>
Digit == {DigitChars[i] : i \in 1..10}
Space == {" ", "\t", "\n"}

DigitVal(c) == (CHOOSE i \in 1..10 : DigitChars[i] = c) - 1

Min(a, b) == IF a <= b THEN a ELSE b

\* F applied to the value of e: e is evaluated once, before F looks at it
Bind(e, F(_)) == CHOOSE r \in {F(v) : v \in {e}} : TRUE

\* Python slice text[:n]
Prefix(text, n) == SubSeq(text, 1, Min(Len(text), n))

\* Python slice text[i:] with i a 1-based position here
Suffix(text, i) == SubSeq(text, i, Len(text))

IsAt(text, i, S) == i >= 1 /\ i <= Len(text) /\ text[i] \in S

\* first position >= i whose character is not in S (Len + 1 when none): the end
\* of a greedy character-class run of a regular expression
RECURSIVE RunEnd(_, _, _)
RunEnd(text, i, S) ==
    IF IsAt(text, i, S) THEN RunEnd(text, i + 1, S) ELSE i

AllDigits(text, i, n) == \A k \in i..(i + n - 1) : IsAt(text, k, Digit)

\* int() of a digit string
RECURSIVE ToInt(_)
ToInt(ds) ==
    IF ds = <<>> THEN 0
    ELSE 10 * ToInt(SubSeq(ds, 1, Len(ds) - 1)) + DigitVal(ds[Len(ds)])

\* str() of a natural number
RECURSIVE ToChars(_)
ToChars(n) ==
    IF n < 10 THEN <<DigitChars[n + 1]>>
    ELSE ToChars(n \div 10) \o <<DigitChars[(n % 10) + 1]>>

Unknown == <<"U","n","k","n","o","w","n">>
ContentNotAvailable == <<"C","o","n","t","e","n","t"," ","n","o","t"," ",
                         "a","v","a","i","l","a","b","l","e">>

MonthNames == <<
    <<"J","a","n","u","a","r","y">>,
    <<"F","e","b","r","u","a","r","y">>,
    <<"M","a","r","c","h">>,
    <<"A","p","r","i","l">>,
    <<"M","a","y">>,
    <<"J","u","n","e">>,
    <<"J","u","l","y">>,
    <<"A","u","g","u","s","t">>,
    <<"S","e","p","t","e","m","b","e","r">>,
    <<"O","c","t","o","b","e","r">>,
    <<"N","o","v","e","m","b","e","r">>,
    <<"D","e","c","e","m","b","e","r">>
>>

IsLeap(y) == (y % 4 = 0 /\ y % 100 # 0) \/ y % 400 = 0

DaysInMonth(y, m) ==
    IF m = 2 THEN (IF IsLeap(y) THEN 29 ELSE 28)
    ELSE IF m \in {4, 6, 9, 11} THEN 30 ELSE 31

\* datetime(year, month, day) accepts the triple
ValidDate(y, m, d) == y >= 1 /\ y <= 9999 /\ m \in 1..12 /\ d >= 1 /\ d <= DaysInMonth(y, m)

-----------------------------------------------------------------------------
(* NewsGUI._ordinal and the display form of a date *)

OrdinalSuffix(n) ==
    IF 10 <= n % 100 /\ n % 100 <= 20 THEN <<"t","h">>
    ELSE IF n % 10 = 1 THEN <<"s","t">>
    ELSE IF n % 10 = 2 THEN <<"n","d">>
    ELSE IF n % 10 = 3 THEN <<"r","d">>
    ELSE <<"t","h">>

Ordinal(n) == ToChars(n) \o OrdinalSuffix(n)

\* dt.strftime(f"{day} %B, %Y") with day = _ordinal(dt.day); %Y is four digits
\* for the years the samples use (1000..9999)
DisplayDate(y, m, d) ==
    Ordinal(d) \o <<" ">> \o MonthNames[m] \o <<",", " ">> \o ToChars(y)

-----------------------------------------------------------------------------
(* NewsGUI._extract_author_and_date: the author heuristic *)

Letter == Upper \cup Lower

\* re.search(r'By([A-Z]...': "By" directly followed by a capital, at position i
ByMatches(text, i) ==
    IsAt(text, i, {"B"}) /\ IsAt(text, i + 1, {"y"}) /\ IsAt(text, i + 2, Upper)

\* the leftmost such position from i on, 0 when there is none
RECURSIVE BySearch(_, _)
BySearch(text, i) ==
    IF i > Len(text) THEN 0
    ELSE IF ByMatches(text, i) THEN i
    ELSE BySearch(text, i + 1)

\* end (exclusive) of [A-Z][a-zA-Z]*(?:\s+[A-Z][a-zA-Z]*)* started at capital j
RECURSIVE NameEnd(_, _)
NameEnd(text, j) ==
    Bind(RunEnd(text, j + 1, Letter), LAMBDA e :
        Bind(RunEnd(text, e, Space), LAMBDA w :
            IF w > e /\ IsAt(text, w, Upper) THEN NameEnd(text, w) ELSE e))

\* the scan of lines 231-237 from position k: stop at the first capital that
\* does not follow ' '
RECURSIVE ScanName(_, _)
ScanName(name, k) ==
    IF k > Len(name) THEN name
    ELSE IF k > 1 /\ name[k] \in Upper /\ name[k - 1] # " " THEN SubSeq(name, 1, k - 1)
    ELSE ScanName(name, k + 1)

RECURSIVE WordEnd(_, _)
WordEnd(text, i) ==
    IF i <= Len(text) /\ text[i] \notin Space THEN WordEnd(text, i + 1) ELSE i

\* ' '.join(text.split()), from position i
RECURSIVE JoinSplit(_, _)
JoinSplit(text, i) ==
    Bind(RunEnd(text, i, Space), LAMBDA s :
        IF s > Len(text) THEN <<>>
        ELSE Bind(WordEnd(text, s), LAMBDA e :
                Bind(JoinSplit(text, e), LAMBDA rest :
                    SubSeq(text, s, e - 1)
                        \o (IF rest = <<>> THEN <<>> ELSE <<" ">> \o rest))))

\* lines 227-239; the empty text is None
ExtractAuthor(text) ==
    Bind(BySearch(text, 1), LAMBDA i :
        IF i = 0 THEN <<>>
        ELSE Bind(SubSeq(text, i + 2, NameEnd(text, i + 2) - 1), LAMBDA name :
                Bind(ScanName(name, 1), LAMBDA scanned : JoinSplit(scanned, 1))))

-----------------------------------------------------------------------------
(* NewsGUI._extract_author_and_date: the date heuristic *)

NoMatch == [ok |-> FALSE, text |-> <<>>, word |-> <<>>, day |-> <<>>, year |-> <<>>]

\* position of the comma after \d{1,2} started at ds, 0 when it does not match
DayEnd(text, ds) ==
    IF IsAt(text, ds, Digit) /\ IsAt(text, ds + 1, {","}) THEN ds + 1
    ELSE IF IsAt(text, ds, Digit) /\ IsAt(text, ds + 1, Digit) /\ IsAt(text, ds + 2, {","})
    THEN ds + 2
    ELSE 0

\* the groups of ([A-Z][a-z]+)\s+(\d{1,2}),\s*(\d{4}) given the end of the word
\* (we), the start of the day (ds), its comma (de) and the start of the year (ys)
DateGroups(text, i, we, ds, de, ys) ==
    IF we > i + 1 /\ ds > we /\ de > 0 /\ AllDigits(text, ys, 4)
    THEN [ok |-> TRUE,
          text |-> SubSeq(text, i, ys + 3),
          word |-> SubSeq(text, i, we - 1),
          day |-> SubSeq(text, ds, de - 1),
          year |-> SubSeq(text, ys, ys + 3)]
    ELSE NoMatch

\* the pattern attempted at position i
DateMatchAt(text, i) ==
    IF ~IsAt(text, i, Upper) THEN NoMatch
    ELSE Bind(RunEnd(text, i + 1, Lower), LAMBDA we :
            Bind(RunEnd(text, we, Space), LAMBDA ds :
                Bind(DayEnd(text, ds), LAMBDA de :
                    Bind(RunEnd(text, de + 1, Space), LAMBDA ys :
                        DateGroups(text, i, we, ds, de, ys)))))

\* re.search: the leftmost match from position i on
RECURSIVE DateSearch(_, _)
DateSearch(text, i) ==
    IF i > Len(text) THEN NoMatch
    ELSE Bind(DateMatchAt(text, i), LAMBDA mt :
            IF mt.ok THEN mt ELSE DateSearch(text, i + 1))

NoDate == [ok |-> FALSE, y |-> 0, m |-> 0, d |-> 0]

\* the month whose full name is word, 0 when there is none
MonthOf(word) ==
    IF \E m \in 1..12 : MonthNames[m] = word
    THEN CHOOSE m \in 1..12 : MonthNames[m] = word
    ELSE 0

\* datetime.strptime("<word> <day> <year>", "%B %d %Y"); ok = FALSE is ValueError
Strptime(word, day, year) ==
    Bind(<<MonthOf(word), ToInt(day), ToInt(year)>>, LAMBDA mdy :
        IF mdy[1] # 0 /\ mdy[2] >= 1 /\ mdy[2] <= 31 /\ ValidDate(mdy[3], mdy[1], mdy[2])
        THEN [ok |-> TRUE, y |-> mdy[3], m |-> mdy[1], d |-> mdy[2]]
        ELSE NoDate)

\* lines 243-249 with the matched text kept when strptime raised
ParseMatchKeepRaw(mt) ==
    Bind(Strptime(mt.word, mt.day, mt.year), LAMBDA dt :
        IF dt.ok THEN DisplayDate(dt.y, dt.m, dt.d) ELSE mt.text)

\* lines 243-249 once the pattern matched: the display form, or None (the empty
\* text) when strptime raised
ParseMatch(mt) ==
    Bind(Strptime(mt.word, mt.day, mt.year), LAMBDA dt :
        IF dt.ok THEN DisplayDate(dt.y, dt.m, dt.d) ELSE <<>>)

\* lines 242-249; the empty text is None
ExtractDate(text) ==
    Bind(DateSearch(text, 1), LAMBDA mt : IF mt.ok THEN ParseMatch(mt) ELSE <<>>)

\* _extract_author_and_date(text) = (author, date_str)
ExtractAuthorAndDate(text) ==
    [author |-> ExtractAuthor(text), date |-> ExtractDate(text)]

-----------------------------------------------------------------------------
(* datetime.fromisoformat(raw_date.replace("Z", "+00:00")) *)

ZOffset == <<"+","0","0",":","0","0">>

\* str.replace("Z", "+00:00"), from position i
RECURSIVE ReplaceZ(_, _)
ReplaceZ(text, i) ==
    IF i > Len(text) THEN <<>>
    ELSE (IF text[i] = "Z" THEN ZOffset ELSE <<text[i]>>) \o ReplaceZ(text, i + 1)

TwoDigits(text, i) == AllDigits(text, i, 2)

Num(text, i, n) == ToInt(SubSeq(text, i, i + n - 1))

\* HH[:MM[:SS[.fff[fff]]]] over the whole of t, each field within its range
ClockOk(t) ==
    /\ Len(t) \in {2, 5, 8, 12, 15}
    /\ TwoDigits(t, 1) /\ Num(t, 1, 2) <= 23
    /\ Len(t) >= 5 => (t[3] = ":" /\ TwoDigits(t, 4) /\ Num(t, 4, 2) <= 59)
    /\ Len(t) >= 8 => (t[6] = ":" /\ TwoDigits(t, 7) /\ Num(t, 7, 2) <= 59)
    /\ Len(t) >= 12 => (t[9] = "." /\ AllDigits(t, 10, Len(t) - 9))

\* first position of a sign in t from i on, Len(t) + 1 when there is none
RECURSIVE SignPos(_, _)
SignPos(t, i) ==
    IF i > Len(t) \/ t[i] \in {"+", "-"} THEN i ELSE SignPos(t, i + 1)

\* the time part after the separator: a clock, then an optional +HH:MM / -HH:MM offset
TimeOk(t) ==
    Bind(SignPos(t, 1), LAMBDA p :
        /\ Bind(SubSeq(t, 1, p - 1), ClockOk)
        /\ p <= Len(t) => Bind(Suffix(t, p + 1), ClockOk))

\* The grammar datetime.fromisoformat accepts in every Python 3 release that has
\* it: YYYY-MM-DD, optionally one separator character and a time.  ok = FALSE is
\* ValueError.
FromIsoFormat(text) ==
    IF /\ Len(text) >= 10
       /\ AllDigits(text, 1, 4) /\ text[5] = "-"
       /\ TwoDigits(text, 6) /\ text[8] = "-" /\ TwoDigits(text, 9)
       /\ ValidDate(Num(text, 1, 4), Num(text, 6, 2), Num(text, 9, 2))
       /\ Len(text) > 10 => (Len(text) >= 13 /\ Bind(Suffix(text, 12), TimeOk))
    THEN [ok |-> TRUE, y |-> Num(text, 1, 4), m |-> Num(text, 6, 2), d |-> Num(text, 9, 2)]
    ELSE NoDate

\* lines 277-282 and 287-292: reformat an ISO date, pass anything else through
NormalizeDate(raw_date) ==
    Bind(Bind(ReplaceZ(raw_date, 1), FromIsoFormat), LAMBDA dt :
        IF dt.ok THEN DisplayDate(dt.y, dt.m, dt.d) ELSE raw_date)

-----------------------------------------------------------------------------
(* NewsGUI._fetch_news_thread, lines 262-302: what is displayed for one article *)

DisplayLen == 300

\* lines 270-284 without the tests for "Unknown": a heuristic hit always wins
MergeOverwrite(author, raw_date, ex) ==
    [author |-> IF ex.author # <<>> THEN ex.author ELSE author,
     date |-> IF ex.date # <<>> THEN ex.date
              ELSE IF raw_date # Unknown THEN NormalizeDate(raw_date)
              ELSE Unknown]

\* lines 270-284, with ex what _extract_author_and_date returned
Merge(author, raw_date, ex) ==
    [author |-> IF author = Unknown /\ ex.author # <<>> THEN ex.author ELSE author,
     date |-> IF raw_date = Unknown /\ ex.date # <<>> THEN ex.date
              ELSE IF raw_date # Unknown THEN NormalizeDate(raw_date)
              ELSE Unknown]

\* lines 263-292: the author and the date shown for an article
Reconcile(author, raw_date, content) ==
    IF author = Unknown \/ raw_date = Unknown
    THEN Bind(ExtractAuthorAndDate(content), LAMBDA ex : Merge(author, raw_date, ex))
    ELSE [author |-> author, date |-> NormalizeDate(raw_date)]

-----------------------------------------------------------------------------
(* NewsAPIClient.fetch_news *)

\* An upstream response: kind is "transport" (requests.get raised), "http_error"
\* (raise_for_status raised), "not_ok" (a payload whose status is not "ok") or
\* "ok"; articles is the payload's articles list.
FetchNews(resp) ==
    IF resp.kind = "ok" THEN resp.articles ELSE <<>>

-----------------------------------------------------------------------------
(* WebScraper.scrape_article *)

ContentLen == 500
maxsize == 100

ZeroResult == [content |-> <<>>, author |-> Unknown, publication_date |-> Unknown]

\* what the history records as the page of a call that made no request
NoFetch ==
    [kind |-> "none", container |-> FALSE, text |-> <<>>,
     authorTag |-> "absent", author |-> <<>>, dateTag |-> "absent", date |-> <<>>]

\* The body of scrape_article on one outcome of requests.get.  kind is
\* "transport" (a RequestException, a timeout included), "forbidden" (403),
\* "http_error" (another non-2xx status) or "page".  A meta tag is "absent",
\* "present" (with its content attribute) or "malformed" (the tag has no content
\* attribute, so tag['content'] raises KeyError, which line 84 does not catch).
ScrapePage(out) ==
    IF out.kind # "page" THEN [raised |-> FALSE, result |-> ZeroResult]
    ELSE IF out.authorTag = "malformed" \/ out.dateTag = "malformed"
    THEN [raised |-> TRUE, result |-> ZeroResult]
    ELSE [raised |-> FALSE,
          result |-> [content |-> IF out.container THEN Prefix(out.text, ContentLen)
                                  ELSE <<>>,
                      author |-> IF out.authorTag = "present" THEN out.author
                                 ELSE Unknown,
                      publication_date |-> IF out.dateTag = "present" THEN out.date
                                           ELSE Unknown]]

CacheIndex(c, url) == {i \in 1..Len(c) : c[i].url = url}

Without(c, i) == SubSeq(c, 1, i - 1) \o SubSeq(c, i + 1, Len(c))

\* functools.lru_cache(maxsize=100) around the body: a hit returns the stored
\* object and makes it the most recently used; a miss runs the body, stores what
\* it returns (nothing when it raises) and evicts the least recently used entry
\* beyond maxsize.
CachedScrape(c, url, out) ==
    LET hits == CacheIndex(c, url)
        i == CHOOSE k \in hits : TRUE
        r == ScrapePage(out)
        grown == Append(c, [url |-> url, result |-> r.result])
    IN  IF hits # {}
        THEN [raised |-> FALSE, hit |-> TRUE, result |-> c[i].result,
              cache |-> Append(Without(c, i), c[i])]
        ELSE IF r.raised
        THEN [raised |-> TRUE, hit |-> FALSE, result |-> r.result, cache |-> c]
        ELSE [raised |-> FALSE, hit |-> FALSE, result |-> r.result,
              cache |-> IF Len(grown) > maxsize THEN Tail(grown) ELSE grown]

\* The dict a call returned IS the dict the cache holds: an assignment to one of
\* its keys by the caller changes the cached entry (the most recently used one).
StoreInReturned(c, key_content) ==
    [c EXCEPT ![Len(c)].result.content = key_content]

-----------------------------------------------------------------------------
(* NewsAggregator *)

\* a dict key that is not there
NoKey == <<"(no key)">>

DictGet(v, default) == IF v = NoKey THEN default ELSE v

\* article.get("description") or article.get("content") or "Content not available"
FallbackContent(article) ==
    IF article.description # <<>> THEN article.description
    ELSE IF article.content # <<>> /\ article.content # NoKey THEN article.content
    ELSE ContentNotAvailable

\* article.update(scraped_data)
Update(article, scraped) ==
    [article EXCEPT !.content = scraped.content,
                    !.author = scraped.author,
                    !.publication_date = scraped.publication_date]

\* _clean_data without line 110: the url is never remembered
RECURSIVE CleanFromNoAdd(_, _, _)
CleanFromNoAdd(arts, i, seen) ==
    IF i > Len(arts) THEN <<>>
    ELSE IF arts[i].url # "" /\ arts[i].url \notin seen
    THEN <<arts[i]>> \o CleanFromNoAdd(arts, i + 1, seen)
    ELSE CleanFromNoAdd(arts, i + 1, seen)

\* _clean_data with an article that has no url kept
RECURSIVE CleanFromKeepUrlless(_, _, _)
CleanFromKeepUrlless(arts, i, seen) ==
    IF i > Len(arts) THEN <<>>
    ELSE IF arts[i].url = "" \/ arts[i].url \notin seen
    THEN <<arts[i]>> \o CleanFromKeepUrlless(arts, i + 1, seen \cup {arts[i].url})
    ELSE CleanFromKeepUrlless(arts, i + 1, seen)

\* _clean_data, lines 106-112, from position i with seen_urls = seen
RECURSIVE CleanFrom(_, _, _)
CleanFrom(arts, i, seen) ==
    IF i > Len(arts) THEN <<>>
    ELSE IF arts[i].url # "" /\ arts[i].url \notin seen
    THEN <<arts[i]>> \o CleanFrom(arts, i + 1, seen \cup {arts[i].url})
    ELSE CleanFrom(arts, i + 1, seen)

CleanData(arts) == CleanFrom(arts, 1, {})

\* The loop of aggregate, lines 97-102, from position i.  st carries the
\* aggregator's and the scraper's state; pages[url] is what requests.get finds
\* at url during this call.  An exception out of scrape_article ends the loop
\* (st.raised) with the articles before i updated.
RECURSIVE AggregateLoop(_, _, _)
AggregateLoop(st, i, pages) ==
    IF st.raised \/ i > Len(st.articles) THEN st
    ELSE IF st.articles[i].url = "" THEN AggregateLoop(st, i + 1, pages)
    ELSE
    LET a == st.articles[i]
        call == CachedScrape(st.cache, a.url, pages[a.url])
        comp == IF call.hit \/ call.raised THEN st.computed
                ELSE (a.url :> call.result) @@ st.computed
        substitute == ~call.raised /\ call.result.content = <<>>
        scraped == IF substitute
                   THEN [call.result EXCEPT !.content = FallbackContent(a)]
                   ELSE call.result
    IN  Bind(
            [articles |-> IF call.raised THEN st.articles
                          ELSE [st.articles EXCEPT ![i] = Update(a, scraped)],
             cache |-> IF substitute THEN StoreInReturned(call.cache, scraped.content)
                       ELSE call.cache,
             computed |-> comp,
             scrapeOut |-> [url |-> a.url, hit |-> call.hit, raised |-> call.raised,
                            repeat |-> a.url \in DOMAIN st.computed,
                            out |-> IF call.hit THEN NoFetch ELSE pages[a.url],
                            result |-> call.result],
             raised |-> call.raised, uncleaned |-> <<>>],
            LAMBDA next : AggregateLoop(next, i + 1, pages))

\* aggregate returning early, before line 95 assigns, when nothing was fetched
AggregateRunKeep(st, resp, pages) ==
    LET looped == Bind([st EXCEPT !.articles = FetchNews(resp), !.raised = FALSE],
                       LAMBDA started : AggregateLoop(started, 1, pages))
    IN  IF FetchNews(resp) = <<>> THEN [st EXCEPT !.raised = FALSE]
        ELSE IF looped.raised THEN looped
        ELSE [looped EXCEPT !.articles = CleanData(looped.articles),
                            !.uncleaned = looped.articles]

\* aggregate, lines 95-103: the state it leaves, _clean_data included unless an
\* exception ended the call
AggregateRun(st, resp, pages) ==
    LET looped == Bind([st EXCEPT !.articles = FetchNews(resp), !.raised = FALSE],
                       LAMBDA started : AggregateLoop(started, 1, pages))
    IN  IF looped.raised THEN looped
        ELSE [looped EXCEPT !.articles = CleanData(looped.articles),
                            !.uncleaned = looped.articles]

SourceName(article) == IF article.source = "" THEN "Unknown" ELSE article.source

\* get_category_distribution: source name -> number of articles
CategoryDistribution(arts) ==
    [n \in {SourceName(arts[i]) : i \in 1..Len(arts)} |->
        Cardinality({i \in 1..Len(arts) : SourceName(arts[i]) = n})]

-----------------------------------------------------------------------------
(* Inputs: what the upstream service and the article pages may answer *)

Desc1 == <<"B","y"," ","A","l">>
Desc2 == <<"M","a","y"," ","2",","," ","2","0","2","5">>
Snip1 == <<"S","n","i","p">>
Page1 == <<"B","y","B","o"," ","M","a","y"," ","1",","," ","2","0","2","5">>
AuthorMeta == <<"J","o"," ","R","o","e">>
IsoZ == <<"2","0","2","5","-","0","5","-","1","7","T","1","0",":","0","0",":","0","0","Z">>
Garbage == <<"l","a","s","t"," ","w","e","e","k">>

RealURLs == {"u1"}
URLs == {""} \cup RealURLs

\* a headline record as the upstream service returns it
Headline(url, description, content, source) ==
    [url |-> url, description |-> description, content |-> content,
     source |-> source, author |-> NoKey, publication_date |-> NoKey]

\* description, upstream content snippet and source name of the sample headlines:
\* every combination of present and missing description and snippet
HeadlineTexts ==
    {<<Desc1, Snip1, "s1">>, <<Desc2, <<>>, "s2">>, <<<<>>, Snip1, "s1">>, <<<<>>, <<>>, "">>}

Headlines == {Headline(u, t[1], t[2], t[3]) : u \in URLs, t \in HeadlineTexts}

BoundedSeq(S, n) == UNION {[1..k -> S] : k \in 0..n}

Failure(kind) ==
    [kind |-> kind, container |-> FALSE, text |-> <<>>,
     authorTag |-> "absent", author |-> <<>>, dateTag |-> "absent", date |-> <<>>]

PageOf(container, text, authorTag, dateTag, date) ==
    [kind |-> "page", container |-> container, text |-> text,
     authorTag |-> authorTag, author |-> IF authorTag = "present" THEN AuthorMeta ELSE <<>>,
     dateTag |-> dateTag, date |-> IF dateTag = "present" THEN date ELSE <<>>]

Failures == {Failure(k) : k \in {"transport", "forbidden", "http_error"}}

Pages ==
    {PageOf(ct[1], ct[2], at, dt[1], dt[2]) :
        ct \in {<<FALSE, <<>>>>, <<TRUE, <<>>>>, <<TRUE, Page1>>},
        at \in {"absent", "present", "malformed"},
        dt \in {<<"absent", <<>>>>, <<"malformed", <<>>>>,
                <<"present", IsoZ>>, <<"present", Garbage>>}}

Outcomes == Failures \cup Pages

Responses ==
    {[kind |-> k, articles |-> <<>>] : k \in {"transport", "http_error", "not_ok"}}
    \cup {[kind |-> "ok", articles |-> hs] : hs \in BoundedSeq(Headlines, MaxHeadlines)}

\* the pages an aggregate call may find behind the urls
AggOutcomes ==
    {Failure("transport"),
     PageOf(FALSE, <<>>, "absent", "absent", <<>>),
     PageOf(TRUE, Page1, "present", "present", IsoZ),
     PageOf(TRUE, Page1, "malformed", "absent", <<>>)}

-----------------------------------------------------------------------------
(* The aggregator and the scraper as a state machine *)

AggInitWith(arts) ==
    /\ articles = arts
    /\ cache = <<>>
    /\ computed = <<>>
    /\ scrapeOut = [url |-> "", hit |-> FALSE, raised |-> FALSE, repeat |-> FALSE,
                    out |-> NoFetch, result |-> ZeroResult]
    /\ lastAgg = [called |-> FALSE, kind |-> "", fetched |-> <<>>, raised |-> FALSE,
                  hadArticles |-> FALSE]
    /\ cleaned = [done |-> FALSE, input |-> <<>>]

AggInit == AggInitWith(<<>>)

GuiInit ==
    /\ fetch_button = "normal"
    /\ visualize_button = "normal"
    /\ loading_label = ""
    /\ text_area = <<>>
    /\ afterQueue = <<>>
    /\ threads = <<>>
    /\ dialog = [kind |-> "none", text |-> "", data |-> <<>>]

NoShown == [author |-> <<>>, date |-> <<>>]

NoOut == [extracted |-> FALSE, extract |-> [author |-> <<>>, date |-> <<>>],
          reconciled |-> FALSE, shown |-> NoShown]

HeurInitWith(in) ==
    /\ hIn = in
    /\ hOut = NoOut

HeurInit == HeurInitWith([author |-> Unknown, raw_date |-> Unknown, content |-> <<>>])

\* the urls an aggregate call on resp has to fetch: those not in the cache
ToFetch(resp) ==
    {u \in RealURLs : /\ CacheIndex(cache, u) = {}
                      /\ \E i \in 1..Len(FetchNews(resp)) : FetchNews(resp)[i].url = u}

AggState ==
    [articles |-> articles, cache |-> cache,
     computed |-> computed, scrapeOut |-> scrapeOut, raised |-> FALSE,
     uncleaned |-> <<>>]

\* one call of NewsAggregator.aggregate
AggregateCall(resp, pages) ==
    LET r == AggregateRun(AggState, resp, pages)
    IN  /\ articles' = r.articles
        /\ cache' = r.cache
        /\ computed' = r.computed
        /\ scrapeOut' = r.scrapeOut
        /\ lastAgg' = [called |-> TRUE, kind |-> resp.kind, fetched |-> FetchNews(resp),
                       raised |-> r.raised, hadArticles |-> articles # <<>>]
        /\ cleaned' = [done |-> ~r.raised, input |-> r.uncleaned]

Aggregate(resp, pages) ==
    /\ AggregateCall(resp, pages)
    /\ UNCHANGED <<guiVars, heurVars>>

\* one call of WebScraper.scrape_article from outside aggregate
ScrapeArticle(url, out) ==
    LET call == CachedScrape(cache, url, out)
    IN  /\ cache' = call.cache
        /\ computed' = IF call.hit \/ call.raised THEN computed
                       ELSE (url :> call.result) @@ computed
        /\ scrapeOut' = [url |-> url, hit |-> call.hit, raised |-> call.raised,
                         repeat |-> url \in DOMAIN computed,
                         out |-> IF call.hit THEN NoFetch ELSE out,
                         result |-> call.result]
        /\ UNCHANGED <<articles, lastAgg, cleaned, guiVars, heurVars>>

Next ==
    \/ \E resp \in Responses : \E pages \in [ToFetch(resp) -> AggOutcomes] :
            Aggregate(resp, pages)
    \/ \E url \in RealURLs, out \in AggOutcomes : ScrapeArticle(url, out)

\* the state after NewsAggregator(api_key) and NewsGUI(aggregator)
Init ==
    /\ AggInit
    /\ GuiInit
    /\ HeurInit

Spec == Init /\ [][Next]_vars

\* scrape_article alone, on every outcome of the page fetch
ScrapeURLs == {"u1", "u2"}

NextScrape == \E url \in ScrapeURLs, out \in Outcomes : ScrapeArticle(url, out)

SpecScrape == Init /\ [][NextScrape]_vars

-----------------------------------------------------------------------------
(* _clean_data called on any list the aggregator may hold, as test_data_cleaning
   does, next to aggregate *)

CleanURLs == {"", "u1", "u2"}

CleanSamples == {Headline(u, d, Snip1, "s1") : u \in CleanURLs, d \in {Desc1, Desc2}}

CleanDataCall ==
    /\ articles' = CleanData(articles)
    /\ cleaned' = [done |-> TRUE, input |-> articles]
    /\ UNCHANGED <<cache, computed, scrapeOut, lastAgg, guiVars, heurVars>>

InitClean ==
    /\ \E arts \in BoundedSeq(CleanSamples, MaxArticles) : AggInitWith(arts)
    /\ GuiInit
    /\ HeurInit

NextClean ==
    \/ CleanDataCall
    \/ \E resp \in Responses : \E pages \in [ToFetch(resp) -> AggOutcomes] :
            Aggregate(resp, pages)

SpecClean == InitClean /\ [][NextClean]_vars

-----------------------------------------------------------------------------
(* The text heuristics and the reconciliation applied to one article *)

TxtByDate == <<"B","y","S","a","m"," ","Q","u","i","n","n","M","a","y"," ","1","7",","," ","2","0","2","5">>
TxtBadMonth == <<"P","o","s","t","e","d"," ","F","o","o"," ","1","7",","," ","2","0","2","5">>
TxtBadDay == <<"J","u","n","e"," ","3","1",","," ","2","0","2","5">>
TxtPlain == <<"N","o"," ","b","y","l","i","n","e">>
TxtDateOnly == <<"O","n"," ","M","a","y"," ","3",","," ","2","0","2","4">>
TxtTwoDates == <<"S","m","a","r","c","h"," ","1",","," ","2","0","2","5"," ","M","a","y"," ","2",","," ","2","0","2","5">>
TxtBy == <<"B","y"," ","A","n","n"," ","L","e","e">>
TxtLeap == <<"F","e","b","r","u","a","r","y"," ","2","9",","," ","2","0","2","4">>
TxtNoLeap == <<"F","e","b","r","u","a","r","y"," ","2","9",","," ","2","0","2","5">>
TxtDay0 == <<"M","a","y"," ","0",","," ","2","0","2","5">>
TxtDay11 == <<"B","y","A","l"," ","M","a","y"," ","1","1",","," ","2","0","2","5">>
TxtYear0 == <<"M","a","y"," ","1",","," ","0","0","0","0">>
IsoDate == <<"2","0","2","4","-","0","3","-","0","2">>
IsoBad == <<"2","0","2","5","-","0","2","-","3","0","T","0","0",":","0","0",":","0","0","Z">>

HeurContents ==
    {<<>>, TxtByDate, TxtBadMonth, TxtBadDay, TxtPlain, TxtDateOnly, TxtTwoDates,
     TxtBy, TxtLeap, TxtNoLeap, TxtDay0, TxtDay11, TxtYear0, ContentNotAvailable}

HeurInputs ==
    [author : {Unknown, AuthorMeta, <<>>},
     raw_date : {Unknown, IsoZ, IsoDate, IsoBad, Garbage},
     content : HeurContents]

\* a call of _extract_author_and_date on the content
ExtractCall ==
    /\ ~hOut.extracted
    /\ hOut' = [hOut EXCEPT !.extracted = TRUE,
                            !.extract = ExtractAuthorAndDate(hIn.content)]
    /\ UNCHANGED <<hIn, aggVars, guiVars>>

\* one pass of the loop body of _fetch_news_thread, lines 262-302
ReconcileCall ==
    /\ ~hOut.reconciled
    /\ hOut' = [hOut EXCEPT !.reconciled = TRUE,
                            !.shown = Reconcile(hIn.author, hIn.raw_date, hIn.content)]
    /\ UNCHANGED <<hIn, aggVars, guiVars>>

InitHeur ==
    /\ AggInit
    /\ GuiInit
    /\ \E in \in HeurInputs : HeurInitWith(in)

NextHeur == ExtractCall \/ ReconcileCall

SpecHeur == InitHeur /\ [][NextHeur]_vars

-----------------------------------------------------------------------------
(* NewsGUI: the buttons, the worker thread and the callbacks of root.after *)

UiState ==
    [fetch_button |-> fetch_button, visualize_button |-> visualize_button,
     loading_label |-> loading_label, text_area |-> text_area, dialog |-> dialog]

SetUi(ui) ==
    /\ fetch_button' = ui.fetch_button
    /\ visualize_button' = ui.visualize_button
    /\ loading_label' = ui.loading_label
    /\ text_area' = ui.text_area
    /\ dialog' = ui.dialog

ErrorBox(text) == [kind |-> "error", text |-> text, data |-> <<>>]

\* lines 203-207 without line 204: the Visualize button stays enabled
DisableFetchOnly(ui) ==
    [ui EXCEPT !.fetch_button = "disabled", !.loading_label = "Loading..."]

\* lines 203-207: both buttons disabled, the loading text shown
DisableButtons(ui) ==
    [ui EXCEPT !.fetch_button = "disabled", !.visualize_button = "disabled",
               !.loading_label = "Loading..."]

\* _hide_loading, line 309
HideLoading(ui) == [ui EXCEPT !.loading_label = ""]

\* _enable_buttons
EnableButtons(ui) ==
    [ui EXCEPT !.fetch_button = "normal", !.visualize_button = "normal"]

NoBlock == [author |-> <<>>, date |-> <<>>, content |-> <<>>, source |-> ""]

Callback(name, block) == [cb |-> name, block |-> block]

\* the effect of one scheduled callback on the widgets
RunCallback(ui, c) ==
    IF c.cb = "insert" THEN [ui EXCEPT !.text_area = Append(@, c.block)]
    ELSE IF c.cb = "showerror" THEN [ui EXCEPT !.dialog = ErrorBox("No articles found!")]
    ELSE IF c.cb = "hide" THEN HideLoading(ui)
    ELSE EnableButtons(ui)

\* root.update(): every pending callback runs, oldest first
RECURSIVE Update_(_, _)
Update_(ui, queue) ==
    IF queue = <<>> THEN ui
    ELSE Update_(RunCallback(ui, Head(queue)), Tail(queue))

\* lines 263-302: the block displayed for article a
Shown(a, author, raw_date, content) ==
    Bind(Reconcile(author, raw_date, content), LAMBDA r :
        [author |-> r.author, date |-> r.date, content |-> Prefix(content, DisplayLen),
         source |-> IF a.source = "" THEN "N/A" ELSE a.source])

Block(a) ==
    Bind(<<DictGet(a.author, Unknown), DictGet(a.publication_date, Unknown),
           DictGet(a.content, <<>>)>>,
         LAMBDA got : Shown(a, got[1], got[2], got[3]))

\* what the loop of lines 261-303 schedules for the articles from position i
RECURSIVE Inserts(_, _)
Inserts(arts, i) ==
    IF i > Len(arts) THEN <<>>
    ELSE <<Callback("insert", Bind(arts[i], Block))>> \o Inserts(arts, i + 1)

\* everything _fetch_news_thread schedules after aggregate returned
Scheduled(arts) ==
    IF arts = <<>>
    THEN <<Callback("showerror", NoBlock), Callback("hide", NoBlock),
           Callback("enable", NoBlock)>>
    ELSE Inserts(arts, 1) \o <<Callback("hide", NoBlock), Callback("enable", NoBlock)>>

\* NewsGUI.fetch_news: a click on the Fetch button.  numOk = FALSE is a text in
\* the number field that num_articles_var.get() rejects (TclError, line 196).
FetchNewsClick(category, source, numOk) ==
    /\ fetch_button = "normal"
    /\ Len(threads) < MaxThreads
    /\ LET cleared == [UiState EXCEPT !.text_area = <<>>]
       IN  IF ~numOk
           THEN SetUi(cleared) /\ UNCHANGED <<afterQueue, threads>>
           ELSE IF category = "" /\ source = ""
           THEN /\ SetUi([cleared EXCEPT !.dialog =
                            ErrorBox("Please select a category or provide a source.")])
                /\ UNCHANGED <<afterQueue, threads>>
           ELSE /\ SetUi(Update_(DisableButtons(cleared), afterQueue))
                /\ afterQueue' = <<>>
                /\ threads' = Append(threads, [pc |-> "aggregate"])
    /\ UNCHANGED <<aggVars, heurVars>>

\* line 254 in the worker thread; an exception out of aggregate ends the thread
WorkerAggregate(t, resp, pages) ==
    /\ t \in 1..Len(threads)
    /\ threads[t].pc = "aggregate"
    /\ AggregateCall(resp, pages)
    /\ threads' = IF lastAgg'.raised THEN Without(threads, t)
                  ELSE [threads EXCEPT ![t].pc = "publish"]
    /\ UNCHANGED <<fetch_button, visualize_button, loading_label, text_area, dialog,
                   afterQueue, heurVars>>

\* lines 255-306 in the worker thread
WorkerPublish(t) ==
    /\ t \in 1..Len(threads)
    /\ threads[t].pc = "publish"
    /\ afterQueue' = afterQueue \o Scheduled(articles)
    /\ threads' = Without(threads, t)
    /\ UNCHANGED <<fetch_button, visualize_button, loading_label, text_area, dialog,
                   aggVars, heurVars>>

\* the UI thread runs the oldest scheduled callback; _hide_loading ends with
\* root.update(), which runs what is still pending
Dispatch ==
    /\ afterQueue # <<>>
    /\ LET c == Head(afterQueue)
           ui == RunCallback(UiState, c)
       IN  IF c.cb = "hide"
           THEN SetUi(Update_(ui, Tail(afterQueue))) /\ afterQueue' = <<>>
           ELSE SetUi(ui) /\ afterQueue' = Tail(afterQueue)
    /\ UNCHANGED <<threads, aggVars, heurVars>>

\* NewsGUI.visualize: a click on the Visualize button
Visualize ==
    /\ visualize_button = "normal"
    /\ LET distribution == CategoryDistribution(articles)
       IN  dialog' = IF DOMAIN distribution = {}
                     THEN ErrorBox("No data to visualize!")
                     ELSE [kind |-> "plot", text |-> "", data |-> distribution]
    /\ UNCHANGED <<fetch_button, visualize_button, loading_label, text_area,
                   afterQueue, threads, aggVars, heurVars>>

Categories == {"", "Technology"}
SourceNames == {"", "bbc-news"}

NextGui ==
    \/ \E category \in Categories, source \in SourceNames, numOk \in BOOLEAN :
            FetchNewsClick(category, source, numOk)
    \/ \E t \in 1..MaxThreads : \E resp \in Responses :
            \E pages \in [ToFetch(resp) -> AggOutcomes] : WorkerAggregate(t, resp, pages)
    \/ \E t \in 1..MaxThreads : WorkerPublish(t)
    \/ Dispatch
    \/ Visualize

SpecGui == Init /\ [][NextGui]_vars

-----------------------------------------------------------------------------
(* Properties *)

Positions(arts, url) == {i \in 1..Len(arts) : arts[i].url = url}

\* the first position of url in arts (url occurs in arts)
FirstPosition(arts, url) ==
    CHOOSE i \in Positions(arts, url) : \A j \in Positions(arts, url) : i <= j

HasUrl(article) == article.url # ""

\* C1: after _clean_data (so after every aggregate call that returned) no two
\* articles share a non-empty url, every url of the input survives in its first
\* occurrence, nothing else survives, and the survivors keep their order.
C1_FirstOccurrenceKept ==
    cleaned.done =>
        /\ \A i, j \in 1..Len(articles) :
                (i < j /\ articles[i].url # "") => articles[i].url # articles[j].url
        /\ \A k \in 1..Len(cleaned.input) :
                cleaned.input[k].url # "" =>
                    \E i \in 1..Len(articles) :
                        articles[i] =
                            cleaned.input[FirstPosition(cleaned.input, cleaned.input[k].url)]
        /\ \A i \in 1..Len(articles) :
                /\ Positions(cleaned.input, articles[i].url) # {}
                /\ articles[i] = cleaned.input[FirstPosition(cleaned.input, articles[i].url)]
        /\ \A i, j \in 1..Len(articles) :
                i < j => FirstPosition(cleaned.input, articles[i].url)
                            < FirstPosition(cleaned.input, articles[j].url)

\* _clean_data ran on a list in which a url occurs twice, in two different
\* articles, after an article with another url
C1_Witness ==
    /\ cleaned.done
    /\ Len(articles) >= 2
    /\ \E i, j \in 1..Len(cleaned.input) :
            /\ 1 < i /\ i < j
            /\ cleaned.input[i].url = cleaned.input[j].url
            /\ cleaned.input[i] # cleaned.input[j]
            /\ cleaned.input[1].url \notin {"", cleaned.input[i].url}

C3_Memoized ==
    scrapeOut.repeat =>
        /\ scrapeOut.hit
        /\ scrapeOut.result = computed[scrapeOut.url]

\* the headline the article at position i of the final collection comes from
HeadlineOf(i) ==
    lastAgg.fetched[FirstPosition(lastAgg.fetched, articles[i].url)]

\* C4: after an aggregate call, an article whose page yielded no content carries
\* its own headline's description, else that headline's own snippet, else the
\* literal.
C4_OwnFallback ==
    (lastAgg.called /\ ~lastAgg.raised) =>
        \A i \in 1..Len(articles) :
            (/\ articles[i].url \in DOMAIN computed
             /\ computed[articles[i].url].content = <<>>)
            => articles[i].content =
                    IF HeadlineOf(i).description # <<>> THEN HeadlineOf(i).description
                    ELSE IF HeadlineOf(i).content # <<>> THEN HeadlineOf(i).content
                    ELSE ContentNotAvailable

NothingToExtract(out) ==
    /\ out.kind = "page"
    /\ ~out.container \/ out.text = <<>>
    /\ out.authorTag = "absent"
    /\ out.dateTag = "absent"

\* C5: scrape_article never raises, and when the fetch failed or the page holds
\* nothing to extract it returns the zero value.
C5_NeverRaises ==
    scrapeOut.url # "" =>
        /\ ~scrapeOut.raised
        /\ (~scrapeOut.hit /\ (scrapeOut.out.kind # "page" \/ NothingToExtract(scrapeOut.out)))
                => scrapeOut.result = ZeroResult

\* C6: a scraped author other than "Unknown" is shown as it is, and a scraped
\* date other than "Unknown" is shown reformatted from ISO or verbatim, whatever
\* the heuristics find in the content.
C6_KnownFieldsKept ==
    hOut.reconciled =>
        /\ hIn.author # Unknown => hOut.shown.author = hIn.author
        /\ hIn.raw_date # Unknown =>
                hOut.shown.date =
                    IF FromIsoFormat(ReplaceZ(hIn.raw_date, 1)).ok
                    THEN DisplayDate(FromIsoFormat(ReplaceZ(hIn.raw_date, 1)).y,
                                     FromIsoFormat(ReplaceZ(hIn.raw_date, 1)).m,
                                     FromIsoFormat(ReplaceZ(hIn.raw_date, 1)).d)
                    ELSE hIn.raw_date

\* the heuristics ran (the date is unknown) and found another author than the
\* scraped one
C6_Witness ==
    /\ hOut.reconciled
    /\ hIn.author \notin {Unknown, <<>>}
    /\ hIn.raw_date = Unknown
    /\ ExtractAuthor(hIn.content) \notin {<<>>, hIn.author}
    /\ hOut.shown.date = ExtractDate(hIn.content)
    /\ hOut.shown.date # <<>>

\* C7: an aggregate call whose fetch_news returned the empty list does not
\* raise and leaves no article and an empty distribution.
C7_EmptyUpstream ==
    (lastAgg.called /\ lastAgg.fetched = <<>>) =>
        /\ ~lastAgg.raised
        /\ articles = <<>>
        /\ DOMAIN CategoryDistribution(articles) = {}

\* the upstream call failed while the aggregator held articles of an earlier run
C7_Witness ==
    /\ lastAgg.called
    /\ lastAgg.kind \in {"transport", "http_error", "not_ok"}
    /\ lastAgg.hadArticles

DateMatchedNotParsed ==
    /\ DateSearch(hIn.content, 1).ok
    /\ ~Strptime(DateSearch(hIn.content, 1).word, DateSearch(hIn.content, 1).day,
                 DateSearch(hIn.content, 1).year).ok

\* C8 as stated: when the date pattern matches and the match does not parse, the
\* extractor returns the matched text.
C8_RawDateKept ==
    (hOut.extracted /\ DateMatchedNotParsed) =>
        hOut.extract.date = DateSearch(hIn.content, 1).text

\* C8, amended: when the date pattern matches and the match does not parse, the
\* extractor returns no date.
C8_NoDateOnParseFailure ==
    (hOut.extracted /\ DateMatchedNotParsed) => hOut.extract.date = <<>>

\* the extractor ran on a content whose first match of the pattern is no date
C8_Witness ==
    /\ hOut.extracted
    /\ DateMatchedNotParsed

InFlight ==
    \/ threads # <<>>
    \/ \E i \in 1..Len(afterQueue) : afterQueue[i].cb = "enable"

\* C9: at most one worker thread exists, and from the accepted click until
\* _enable_buttons runs both buttons are disabled.
C9_OneInFlight ==
    /\ Len(threads) <= 1
    /\ InFlight => (fetch_button = "disabled" /\ visualize_button = "disabled")

\* the worker has finished aggregate with articles and has not yet scheduled
\* anything
C9_Witness ==
    /\ Len(threads) = 1
    /\ threads[1].pc = "publish"
    /\ articles # <<>>
    /\ fetch_button = "disabled"

\* C10, in the form a finite run refutes: once no worker runs and no callback
\* is pending, the buttons are enabled and the loading text is cleared.
C10_Released ==
    (threads = <<>> /\ afterQueue = <<>>) =>
        /\ fetch_button = "normal"
        /\ visualize_button = "normal"
        /\ loading_label = ""

=============================================================================
